---- MODULE Spec2Model ----
(***************************************************************************)
(* flake8-rst-docstrings: the docstring checker of flake8_rst_docstrings.py *)
(* as a state machine.  Texts are sequences of characters, validator        *)
(* messages are sequences of tokens (each token a fixed run of characters   *)
(* holding no double quote), the syntax tree is a table of nodes with       *)
(* ordered child lists.                                                     *)
(***************************************************************************)
EXTENDS Integers, Sequences, FiniteSets, TLC

VARIABLES
    t_in,       \* trim: the docstring argument
    t_out,      \* trim: the returned text
    t_pc,       \* trim: "call" before the call, "returned" after it
    m_level,    \* code_mapping: argument level
    m_msg,      \* code_mapping: argument msg
    m_dirs,     \* code_mapping: argument extra_directives
    m_roles,    \* code_mapping: argument extra_roles
    m_code,     \* code_mapping: the returned code
    m_pc,       \* code_mapping: "call" before the call, "returned" after it
    tree,       \* the parsed tree: node id -> node, the Module at 1
    lint,       \* rst_lint.lint: trimmed docstring -> what it does on it
    cls_extra_directives,   \* Plugin.extra_directives (class attribute)
    cls_extra_roles,        \* Plugin.extra_roles (class attribute)
    last_options,   \* <<options>> of the latest parse_options, <<>> if none
    p_tree,     \* Plugin instance: self._tree, <<>> before construction
    gen,        \* the generator of run: "none", "created", "visiting",
                \* "yielding", "done", "raised"
    v_directives,   \* Visitor: self.extra_directives
    v_roles,        \* Visitor: self.extra_roles
    v_errors,       \* Visitor: self.errors
    v_origin,       \* for each entry of v_errors: its node and violation
    stack,      \* nodes whose visit is pending, the next one first
    checked,    \* the nodes _check_docstring was called on, in order
    used_options,   \* last_options when the traversal started
    yielded     \* the tuples run has yielded

trimVars == <<t_in, t_out, t_pc>>

mapVars == <<m_level, m_msg, m_dirs, m_roles, m_code, m_pc>>

inputVars == <<tree, lint>>

classVars == <<cls_extra_directives, cls_extra_roles, last_options>>

visitorVars == <<v_directives, v_roles, v_errors, v_origin, stack, checked,
                 used_options>>

runVars == <<p_tree, gen, yielded>>

walkVars == <<inputVars, classVars, visitorVars, runVars>>

vars == <<trimVars, mapVars, walkVars>>

(***************************************************************************)
(* Bounds                                                                  *)
(***************************************************************************)
MaxTextLen == 5
MaxTailLen == 5
MaxDocLen == 4
MaxViolations == 2

(***************************************************************************)
(* Text                                                                    *)
(***************************************************************************)
\* Python's None; no text holds this token.
None == <<"<None>">>

\* `if docstring:` / `if not docstring:` -- None and "" are false.
Truthy(x) == x # None /\ x # <<>>

Chars == {" ", "\t", "\n", "a"}

\* str.isspace for the characters of the model (also what \s matches)
IsSpace(c) == c \in {" ", "\t", "\n"}

RECURSIVE TextsOfLen(_)
TextsOfLen(n) ==
    IF n = 0 THEN {<<>>}
    ELSE {Append(s, c) : s \in TextsOfLen(n - 1), c \in Chars}

Texts == UNION {TextsOfLen(n) : n \in 0..MaxTextLen}

RECURSIVE Spaces(_)
Spaces(n) == IF n <= 0 THEN <<>> ELSE <<" ">> \o Spaces(n - 1)

\* str.expandtabs() default tab size
TabSize == 8

\* str.expandtabs(): a tab becomes the spaces up to the next tab stop; the
\* column restarts after a line break.
RECURSIVE ExpandFrom(_, _, _)
ExpandFrom(s, i, col) ==
    IF i > Len(s) THEN <<>>
    ELSE IF s[i] = "\t"
         THEN Spaces(TabSize - (col % TabSize)) \o ExpandFrom(s, i + 1, 0)
    ELSE IF s[i] = "\n"
         THEN <<s[i]>> \o ExpandFrom(s, i + 1, 0)
    ELSE <<s[i]>> \o ExpandFrom(s, i + 1, col + 1)

expandtabs(s) == ExpandFrom(s, 1, 0)

\* str.splitlines(): breaks at every "\n"; a final line break opens no
\* further (empty) line; "" has no line.
RECURSIVE SplitFrom(_, _, _)
SplitFrom(s, i, cur) ==
    IF i > Len(s) THEN (IF cur = <<>> THEN <<>> ELSE <<cur>>)
    ELSE IF s[i] = "\n" THEN <<cur>> \o SplitFrom(s, i + 1, <<>>)
    ELSE SplitFrom(s, i + 1, Append(cur, s[i]))

splitlines(s) == SplitFrom(s, 1, <<>>)

RECURSIVE lstrip(_)
lstrip(s) ==
    IF s # <<>> /\ IsSpace(Head(s)) THEN lstrip(Tail(s)) ELSE s

RECURSIVE rstrip(_)
rstrip(s) ==
    IF s # <<>> /\ IsSpace(s[Len(s)]) THEN rstrip(SubSeq(s, 1, Len(s) - 1)) ELSE s

strip(s) == rstrip(lstrip(s))

\* "\n".join(lines)
RECURSIVE join(_)
join(lines) ==
    IF lines = <<>> THEN <<>>
    ELSE IF Len(lines) = 1 THEN lines[1]
    ELSE lines[1] \o <<"\n">> \o join(Tail(lines))

\* line[n:]
SliceFrom(line, n) == SubSeq(line, n + 1, Len(line))

min(a, b) == IF a <= b THEN a ELSE b

(***************************************************************************)
(* trim (PEP 257)                                                          *)
(***************************************************************************)
\* sys.maxsize: the "no indentation seen" value; above every line length.
maxsize == 1000000

\* the loop `for line in lines[1:]` that determines the minimum indentation
RECURSIVE IndentLoop(_, _, _)
IndentLoop(lines, i, indent) ==
    IF i > Len(lines) THEN indent
    ELSE LET stripped == lstrip(lines[i])
         IN  IF stripped # <<>>
             THEN IndentLoop(lines, i + 1,
                             min(indent, Len(lines[i]) - Len(stripped)))
             ELSE IndentLoop(lines, i + 1, indent)

\* a plausible slip: the first line counts too
IndentOf_FirstLineCounts(lines) == IndentLoop(lines, 1, maxsize)

IndentOf(lines) == IndentLoop(lines, 2, maxsize)

\* the list `trimmed`
Trimmed(lines) ==
    LET indent == IndentOf(lines)
    IN  <<strip(lines[1])>> \o
        (IF indent < maxsize
         THEN [i \in 1..(Len(lines) - 1) |->
                   rstrip(SliceFrom(lines[i + 1], indent))]
         ELSE <<>>)

trim(docstring) ==
    IF ~Truthy(docstring) THEN <<>>
    ELSE join(Trimmed(splitlines(expandtabs(docstring))))

(***************************************************************************)
(* code_mapping                                                            *)
(***************************************************************************)
rst_fail_lint == 903

\* the default of code_mapping's parameter `default`
default == 99

Levels == 1..4

\* Level 1 - info
code_mapping_info ==
    (<<"Possible title underline, too short for the title.">> :> 1) @@
    (<<"Unexpected possible title overline or transition.">> :> 2)

\* Level 2 - warning
code_mapping_warning ==
    (<<"Block quote ends without a blank line; unexpected unindent.">> :> 1) @@
    (<<"Bullet list ends without a blank line; unexpected unindent.">> :> 2) @@
    (<<"Definition list ends without a blank line; unexpected unindent.">> :> 3) @@
    (<<"Enumerated list ends without a blank line; unexpected unindent.">> :> 4) @@
    (<<"Explicit markup ends without a blank line; unexpected unindent.">> :> 5) @@
    (<<"Field list ends without a blank line; unexpected unindent.">> :> 6) @@
    (<<"Literal block ends without a blank line; unexpected unindent.">> :> 7) @@
    (<<"Option list ends without a blank line; unexpected unindent.">> :> 8) @@
    (<<"Inline strong start-string without end-string.">> :> 10) @@
    (<<"Blank line required after table.">> :> 11) @@
    (<<"Title underline too short.">> :> 12) @@
    (<<"Inline emphasis start-string without end-string.">> :> 13) @@
    (<<"Inline literal start-string without end-string.">> :> 14) @@
    (<<"Inline interpreted text or phrase reference start-string without end-string.">> :> 15) @@
    (<<"Multiple roles in interpreted text (both prefix and suffix present; only one allowed).">> :> 16) @@
    (<<"Mismatch: both interpreted text role suffix and reference suffix.">> :> 17) @@
    (<<"Literal block expected; none found.">> :> 18) @@
    (<<"Inline substitution_reference start-string without end-string.">> :> 19)

\* Level 3 - error
code_mapping_error ==
    (<<"Unexpected indentation.">> :> 1) @@
    (<<"Malformed table.">> :> 2) @@
    (<<"Unknown directive type">> :> 3) @@
    (<<"Unknown interpreted text role">> :> 4) @@
    (<<"Undefined substitution referenced:">> :> 5) @@
    (<<"Unknown target name:">> :> 6)

\* Level 4 - severe
code_mapping_severe == (<<"Unexpected section title.">> :> 1)

code_mappings_by_level ==
    (1 :> code_mapping_info) @@ (2 :> code_mapping_warning) @@
    (3 :> code_mapping_error) @@ (4 :> code_mapping_severe)

\* the double quote, as a token of a message
Q == "\""

\* msg.count('"')
CountQuotes(msg) == Cardinality({i \in 1..Len(msg) : msg[i] = Q})

\* positions where ' "' starts
SpaceQuoteAt(msg) ==
    {i \in 1..(Len(msg) - 1) : msg[i] = " " /\ msg[i + 1] = Q}

\* msg.endswith('".')
EndsQuotePeriod(msg) ==
    Len(msg) >= 2 /\ msg[Len(msg) - 1] = Q /\ msg[Len(msg)] = "."

Minimum(S) == CHOOSE x \in S : \A y \in S : x <= y

\* msg[: msg.index(' "')]
TextBeforeSpaceQuote(msg) == SubSeq(msg, 1, Minimum(SpaceQuoteAt(msg)) - 1)

\* msg.split('"', 2)[1]: what stands between the first two double quotes
BetweenQuotes(msg) ==
    LET qs == {i \in 1..Len(msg) : msg[i] = Q}
        q1 == Minimum(qs)
        q2 == Minimum(qs \ {q1})
    IN  SubSeq(msg, q1 + 1, q2 - 1)

\* `value in extra`: the value is one of the listed names
In(value, extra) == \E n \in extra : value = <<n>>

\* dict.get(key, dflt)
Get(table, key, dflt) == IF key \in DOMAIN table THEN table[key] ELSE dflt

\* a plausible slip: the two extra sets taken in the other order
code_mapping_Swapped(level, msg, extra_directives, extra_roles) ==
    IF msg \in DOMAIN code_mappings_by_level[level]
    THEN code_mappings_by_level[level][msg]
    ELSE IF CountQuotes(msg) = 2 /\ SpaceQuoteAt(msg) # {} /\ EndsQuotePeriod(msg)
    THEN LET txt == TextBeforeSpaceQuote(msg)
             value == BetweenQuotes(msg)
         IN  IF txt = <<"Unknown directive type">> /\ In(value, extra_roles)
             THEN 0
             ELSE IF txt = <<"Unknown interpreted text role">>
                     /\ In(value, extra_directives)
             THEN 0
             ELSE Get(code_mappings_by_level[level], txt, default)
    ELSE default

code_mapping(level, msg, extra_directives, extra_roles) ==
    IF msg \in DOMAIN code_mappings_by_level[level]
    THEN code_mappings_by_level[level][msg]
    ELSE IF CountQuotes(msg) = 2 /\ SpaceQuoteAt(msg) # {} /\ EndsQuotePeriod(msg)
    THEN LET txt == TextBeforeSpaceQuote(msg)
             value == BetweenQuotes(msg)
         IN  IF txt = <<"Unknown directive type">> /\ In(value, extra_directives)
             THEN 0
             ELSE IF txt = <<"Unknown interpreted text role">>
                     /\ In(value, extra_roles)
             THEN 0
             ELSE Get(code_mappings_by_level[level], txt, default)
    ELSE default

\* e.g. Unknown directive type "req".
DirectiveMsg(name) ==
    <<"Unknown directive type", " ", Q, name, Q, ".">>

\* e.g. Unknown interpreted text role "need".
RoleMsg(name) ==
    <<"Unknown interpreted text role", " ", Q, name, Q, ".">>

(***************************************************************************)
(* Visitor._check_docstring                                                *)
(***************************************************************************)
rst_prefix == "RST"

CheckedKinds == {"Module", "ClassDef", "FunctionDef"}

\* A node of the tree.  doc is ast.get_docstring(node, clean=False);
\* doc_lineno is node.body[0].value.lineno; name and col_offset are
\* attributes of class and function definitions only.
\* the line the parser reports for a string literal that opens on line
\* `first`: its last line
LiteralLineno(first, text) ==
    first + Cardinality({i \in 1..Len(text) : text[i] = "\n"})

\* doc_first is the line of the docstring literal's opening delimiter
Node(kind, name, col, doc, doc_first, children) ==
    [kind |-> kind, name |-> name, col_offset |-> col, doc |-> doc,
     doc_first |-> doc_first,
     doc_lineno |-> IF Truthy(doc) THEN LiteralLineno(doc_first, doc) ELSE 0,
     children |-> children]

HasName(node) == node.kind \in {"ClassDef", "FunctionDef"}

\* re.match(r"^\s+$", line)
MatchesAllWhitespace(line) ==
    line # <<>> /\ \A i \in 1..Len(line) : IsSpace(line[i])

\* a plausible slip: the one-line special case is left out
doc_start_lineno_NoOneLineCase(node) ==
    LET split_docstring == splitlines(node.doc)
        last == split_docstring[Len(split_docstring)]
    IN  node.doc_lineno
          - (Len(split_docstring)
               + (IF ~MatchesAllWhitespace(last) THEN 1 ELSE 0))

doc_start_lineno(node) ==
    LET doc_end_lineno == node.doc_lineno
        split_docstring == splitlines(node.doc)
        doc_line_length ==
            Len(split_docstring)
              + (IF ~MatchesAllWhitespace(split_docstring[Len(split_docstring)])
                 THEN 1 ELSE 0)
    IN  IF Len(split_docstring) = 1 THEN doc_end_lineno - 1
        ELSE doc_end_lineno - doc_line_length

\* a plausible slip: every diagnostic gets the module's column
col_offset_AlwaysModule(node) == -1

col_offset(node) == IF node.kind = "Module" THEN -1 ELSE node.col_offset

Digit(d) == <<"0", "1", "2", "3", "4", "5", "6", "7", "8", "9">>[d + 1]

\* "%03i" % code, for a code of at most three digits
Format03i(code) ==
    <<Digit(code \div 100), Digit((code \div 10) % 10), Digit(code % 10)>>

\* "%s%03i %s" % (rst_prefix, code, msg)
FormatMessage(code, msg) == <<rst_prefix>> \o Format03i(code) \o <<" ">> \o msg

\* rst_error.message.split("\n", 1)[0]
RECURSIVE FirstLine(_)
FirstLine(message) ==
    IF message = <<>> \/ Head(message) = "\n" THEN <<>>
    ELSE <<Head(message)>> \o FirstLine(Tail(message))

\* a plausible slip: info-level violations are reported too
SkippedLevel_None(level) == level <= 0

\* `if rst_error.level <= 1: continue`
SkippedLevel(level) == level <= 1

\* the loop over rst_lint.lint(unindented), from the i-th violation on.
\* acc holds the (error, origin) pairs appended so far; failed tells that
\* the loop was left by an exception (the assertion).
RECURSIVE LintLoop(_, _, _, _, _, _, _)
LintLoop(id, node, violations, i, extra_directives, extra_roles, acc) ==
    IF i > Len(violations) THEN [appended |-> acc, failed |-> FALSE]
    ELSE LET rst_error == violations[i]
             msg == FirstLine(rst_error.message)
             code == code_mapping(rst_error.level, msg,
                                  extra_directives, extra_roles)
         IN  IF SkippedLevel(rst_error.level)
             THEN LintLoop(id, node, violations, i + 1,
                           extra_directives, extra_roles, acc)
             ELSE IF code = 0
             THEN LintLoop(id, node, violations, i + 1,
                           extra_directives, extra_roles, acc)
             ELSE IF ~(0 < code /\ code < 100)
             THEN [appended |-> acc, failed |-> TRUE]
             ELSE LintLoop(id, node, violations, i + 1,
                           extra_directives, extra_roles,
                           Append(acc,
                               <<[line |-> doc_start_lineno(node) + rst_error.line,
                                  col |-> col_offset(node),
                                  msg |-> FormatMessage(
                                              code + 100 * rst_error.level, msg)],
                                 [node |-> id, violation |-> i]>>))

\* the message of the `except Exception as err` branch
FailMessage(node, err) ==
    FormatMessage(rst_fail_lint,
                  <<"Failed to lint docstring: ", node.name, " - ", err>>)

\* _check_docstring(node): the (error, origin) pairs it appends to
\* self.errors, and whether an exception leaves it.  rst_lint tells what
\* rst_lint.lint does on a text: it raises outcome.error, or returns
\* outcome.violations.
\* In the except branch node.name is read: a Module has no such attribute,
\* and the AttributeError leaves the method.
_check_docstring(id, node, rst_lint, extra_directives, extra_roles) ==
    IF ~Truthy(node.doc) THEN [appended |-> <<>>, escaped |-> FALSE]
    ELSE LET unindented == trim(node.doc)
             outcome == rst_lint[unindented]
             loop == IF outcome.raises
                     THEN [appended |-> <<>>, failed |-> TRUE]
                     ELSE LintLoop(id, node, outcome.violations, 1,
                                   extra_directives, extra_roles, <<>>)
         IN  IF ~loop.failed
             THEN [appended |-> loop.appended, escaped |-> FALSE]
             ELSE IF ~HasName(node)
             THEN [appended |-> loop.appended, escaped |-> TRUE]
             ELSE [appended |->
                       Append(loop.appended,
                           <<[line |-> doc_start_lineno(node),
                              col |-> col_offset(node),
                              msg |-> FailMessage(node, outcome.error)],
                             [node |-> id, violation |-> 0]>>),
                   escaped |-> FALSE]

\* the errors, and their origins, of a sequence of (error, origin) pairs
ErrorsOf(pairs) == [i \in 1..Len(pairs) |-> pairs[i][1]]
OriginsOf(pairs) == [i \in 1..Len(pairs) |-> pairs[i][2]]

\* Visitor.__init__: None stands for the empty list
NoneNames == {"<None>"}
OrEmpty(extra) == IF extra = NoneNames THEN {} ELSE extra

(***************************************************************************)
(* Inputs of the walker: trees and validator outcomes                      *)
(***************************************************************************)
\* a one-line docstring of n characters
Doc(n) == [i \in 1..n |-> "a"]

\* the layout of tests/test_ast.py, with one-line docstrings, each of
\* another text; the node ids are not in document order.
\* Pre-order: 1, 4, 6, 3, 5, 2, 7, 8.
TreeNested ==
    <<Node("Module", "<no attribute>", 0, Doc(1), 4, <<4, 2>>),
      Node("FunctionDef", "my_function", 0, Doc(2), 93, <<7>>),
      Node("ClassDef", "NestedClass", 4, Doc(3), 65, <<5>>),
      Node("ClassDef", "MyClass", 0, Doc(4), 31, <<6, 3>>),
      Node("FunctionDef", "create", 8, Doc(5), 79, <<>>),
      Node("FunctionDef", "__init__", 4, Doc(6), 52, <<>>),
      Node("Other", "<no attribute>", 4, None, 0, <<8>>),
      Node("FunctionDef", "nested_function", 8, Doc(7), 111, <<>>)>>

\* a module without docstring, a function whose first statement is no
\* string, a class with an empty string as first statement, and a class
\* with a docstring inside the function
TreeSparse ==
    <<Node("Module", "<no attribute>", 0, None, 0, <<3, 2>>),
      Node("ClassDef", "Empty", 0, <<>>, 9, <<>>),
      Node("FunctionDef", "f", 0, None, 0, <<4>>),
      Node("ClassDef", "Inner", 4, Doc(1), 3, <<>>)>>

\* a module that holds its docstring only
TreeModuleOnly ==
    <<Node("Module", "<no attribute>", 0, Doc(1), 1, <<>>)>>

Trees == {TreeNested, TreeSparse, TreeModuleOnly}

\* a module, a class, a method and another statement; node f has the
\* docstring d (the lines are those of tests/test_ast.py)
PosTree(f, d) ==
    <<Node("Module", "<no attribute>", 0, IF f = 1 THEN d ELSE None, 4, <<3, 4>>),
      Node("FunctionDef", "__init__", 4, IF f = 2 THEN d ELSE None, 52, <<>>),
      Node("ClassDef", "MyClass", 0, IF f = 3 THEN d ELSE None, 31, <<2>>),
      Node("Other", "<no attribute>", 0, None, 0, <<>>)>>

RECURSIVE DocsOfLen(_)
DocsOfLen(n) ==
    IF n = 0 THEN {<<>>}
    ELSE {Append(s, c) : s \in DocsOfLen(n - 1), c \in Chars}

\* the non-empty docstrings of up to MaxDocLen characters
Docs == UNION {DocsOfLen(n) : n \in 1..MaxDocLen}

\* the nodes whose docstring is checked
DocumentedNodes(t) ==
    {n \in 1..Len(t) : t[n].kind \in CheckedKinds /\ Truthy(t[n].doc)}

StrongMsg == <<"Inline strong start-string without end-string.">>

\* a message of two lines that is in no table
NovelMsg == <<"Novel message", "\n", "its second line">>

ViolationKinds ==
    {<<1, <<"Possible title underline, too short for the title.">>>>,
     <<2, StrongMsg>>,
     <<2, RoleMsg("req")>>,
     <<3, DirectiveMsg("req")>>,
     <<3, RoleMsg("req")>>,
     <<4, NovelMsg>>}

\* the violations the validator may report on a text of nl lines
Violations(nl) ==
    {[level |-> k[1], line |-> ln, message |-> k[2]] :
        k \in ViolationKinds, ln \in 1..nl}

RECURSIVE SeqsOfLen(_, _)
SeqsOfLen(S, n) ==
    IF n = 0 THEN {<<>>}
    ELSE {Append(q, x) : q \in SeqsOfLen(S, n - 1), x \in S}

Raises(err) == [raises |-> TRUE, error |-> err, violations |-> <<>>]
Returns(vs) == [raises |-> FALSE, error |-> "", violations |-> vs]

\* what rst_lint.lint may do on a text of nl lines
LintOutcomes(nl) ==
    {Raises("<error text>")} \cup
    {Returns(vs) :
        vs \in UNION {SeqsOfLen(Violations(nl), n) : n \in 0..MaxViolations}}

\* the outcomes with at most one violation, at any line of the text
PosOutcomes(nl) ==
    {Raises("<error text>"), Returns(<<>>)} \cup
    {Returns(<<[level |-> 2, line |-> ln, message |-> StrongMsg]>>) :
        ln \in 1..nl}

\* one violation on the first line
BasicOutcome == Returns(<<[level |-> 2, line |-> 1, message |-> StrongMsg]>>)

\* the lines of the text the validator is given
LintedLines(doc) == Len(Trimmed(splitlines(expandtabs(doc))))

\* a validator that does `out` on the docstring of node f of tree t and
\* reports one violation on every other docstring
Validator(t, f, out) ==
    [x \in {trim(t[n].doc) : n \in DocumentedNodes(t)} |->
        IF x = trim(t[f].doc) THEN out ELSE BasicOutcome]

\* directive and role names an option can list
Names == {"req"}

Options == [rst_directives : SUBSET Names, rst_roles : SUBSET Names]

(***************************************************************************)
(* The parts of the state a specification does not use stay as below       *)
(***************************************************************************)
TrimIdle ==
    /\ t_in = <<>>
    /\ t_out = <<>>
    /\ t_pc = "idle"

MapIdle ==
    /\ m_level = 1
    /\ m_msg = <<>>
    /\ m_dirs = {}
    /\ m_roles = {}
    /\ m_code = 0
    /\ m_pc = "idle"

WalkIdle ==
    /\ tree = <<>>
    /\ lint = <<>>
    /\ cls_extra_directives = {}
    /\ cls_extra_roles = {}
    /\ last_options = <<>>
    /\ p_tree = <<>>
    /\ gen = "none"
    /\ v_directives = {}
    /\ v_roles = {}
    /\ v_errors = <<>>
    /\ v_origin = <<>>
    /\ stack = <<>>
    /\ checked = <<>>
    /\ used_options = <<>>
    /\ yielded = <<>>

(***************************************************************************)
(* Specification of code_mapping: every level, every message made of one   *)
(* of the heads below and a tail of up to MaxTailLen tokens, every pair of *)
(* extra sets over Names                                                   *)
(***************************************************************************)
MsgHeads ==
    {<<>>,
     <<"Unknown directive type">>,
     <<"Unknown interpreted text role">>,
     <<"Undefined substitution referenced:">>,
     <<"Title underline too short.">>,
     <<"Novel message">>}

TailTokens == {" ", Q, ".", "req"}

RECURSIVE TailsOfLen(_)
TailsOfLen(n) ==
    IF n = 0 THEN {<<>>}
    ELSE {Append(s, c) : s \in TailsOfLen(n - 1), c \in TailTokens}

MsgTails == UNION {TailsOfLen(n) : n \in 0..MaxTailLen}

InitMap ==
    /\ m_msg \in {h \o t : h \in MsgHeads, t \in MsgTails}
    /\ m_level = 1
    /\ m_dirs = {}
    /\ m_roles = {}
    /\ m_code = 0
    /\ m_pc = "call"
    /\ TrimIdle
    /\ WalkIdle

CallCodeMapping ==
    /\ m_pc = "call"
    /\ \E level \in Levels, ed \in SUBSET Names, er \in SUBSET Names :
        /\ m_level' = level
        /\ m_dirs' = ed
        /\ m_roles' = er
        /\ m_code' = code_mapping(level, m_msg, ed, er)
    /\ m_pc' = "returned"
    /\ UNCHANGED m_msg
    /\ UNCHANGED <<trimVars, walkVars>>

NextMap == CallCodeMapping

SpecMap == InitMap /\ [][NextMap]_vars

(***************************************************************************)
(* Specification of trim: every text up to MaxTextLen, and None            *)
(***************************************************************************)
InitTrim ==
    /\ t_in \in Texts \cup {None}
    /\ t_out = <<>>
    /\ t_pc = "call"
    /\ MapIdle
    /\ WalkIdle

CallTrim ==
    /\ t_pc = "call"
    /\ t_out' = trim(t_in)
    /\ t_pc' = "returned"
    /\ UNCHANGED t_in
    /\ UNCHANGED <<mapVars, walkVars>>

NextTrim == CallTrim

SpecTrim == InitTrim /\ [][NextTrim]_vars

(***************************************************************************)
(* Plugin and Visitor                                                      *)
(***************************************************************************)
\* the class attributes as defined, no Plugin, no run
WalkStart ==
    /\ cls_extra_directives = {}
    /\ cls_extra_roles = {}
    /\ last_options = <<>>
    /\ p_tree = <<>>
    /\ gen = "none"
    /\ v_directives = {}
    /\ v_roles = {}
    /\ v_errors = <<>>
    /\ v_origin = <<>>
    /\ stack = <<>>
    /\ checked = <<>>
    /\ used_options = <<>>
    /\ yielded = <<>>

\* One of Trees; one documented node gets any outcome of the validator, the
\* others one violation each.
Init ==
    /\ \E t \in Trees :
          /\ tree = t
          /\ \E f \in DocumentedNodes(t) :
                \E out \in LintOutcomes(LintedLines(t[f].doc)) :
                    lint = Validator(t, f, out)
    /\ WalkStart
    /\ TrimIdle
    /\ MapIdle

\* One docstring, any text of up to MaxDocLen characters, on the module,
\* the class or the method; at most one violation, at any of its lines.
InitPos ==
    /\ \E f \in {1, 2, 3}, d \in Docs :
          /\ tree = PosTree(f, d)
          /\ \E out \in PosOutcomes(LintedLines(d)) :
                lint = Validator(PosTree(f, d), f, out)
    /\ WalkStart
    /\ TrimIdle
    /\ MapIdle

\* Plugin.parse_options(options); not while a traversal is running
parse_options(options) ==
    /\ gen # "visiting"
    /\ cls_extra_directives' = options.rst_directives
    /\ cls_extra_roles' = options.rst_roles
    /\ last_options' = <<options>>
    /\ UNCHANGED <<inputVars, visitorVars, runVars, trimVars, mapVars>>

ParseOptions == \E options \in Options : parse_options(options)

\* Plugin(tree)
Construct ==
    /\ p_tree = <<>>
    /\ p_tree' = tree
    /\ UNCHANGED <<gen, yielded>>
    /\ UNCHANGED <<inputVars, classVars, visitorVars, trimVars, mapVars>>

\* plugin.run(): a new generator, its body not yet started
Run ==
    /\ p_tree # <<>>
    /\ gen \in {"none", "done", "raised"}
    /\ gen' = "created"
    /\ yielded' = <<>>
    /\ UNCHANGED p_tree
    /\ UNCHANGED <<inputVars, classVars, visitorVars, trimVars, mapVars>>

\* a plausible slip: the two arguments of Visitor(...) in the other order
VisitorArgs_Swapped == <<cls_extra_directives, cls_extra_roles>>

\* the arguments (extra_roles, extra_directives) run passes to Visitor
VisitorArgs == <<cls_extra_roles, cls_extra_directives>>

\* the first next() enters the body: Visitor(...), then visitor.visit(tree)
StartVisit ==
    /\ gen = "created"
    /\ gen' = "visiting"
    /\ v_roles' = OrEmpty(VisitorArgs[1])
    /\ v_directives' = OrEmpty(VisitorArgs[2])
    /\ v_errors' = <<>>
    /\ v_origin' = <<>>
    /\ checked' = <<>>
    /\ stack' = <<1>>
    /\ used_options' = last_options
    /\ UNCHANGED <<p_tree, yielded>>
    /\ UNCHANGED <<inputVars, classVars, trimVars, mapVars>>

\* generic_visit(node): the children, in order
ChildrenToVisit(node) == node.children

\* visit_FunctionDef, visit_ClassDef, visit_Module: _check_docstring(node),
\* then generic_visit(node).  An exception that leaves _check_docstring
\* leaves visit, and run.
VisitChecked(kind) ==
    /\ gen = "visiting"
    /\ stack # <<>>
    /\ LET id == Head(stack)
           node == p_tree[id]
           r == _check_docstring(id, node, lint, v_directives, v_roles)
       IN  /\ node.kind = kind
           /\ v_errors' = v_errors \o ErrorsOf(r.appended)
           /\ v_origin' = v_origin \o OriginsOf(r.appended)
           /\ checked' = Append(checked, id)
           /\ IF r.escaped
              THEN gen' = "raised" /\ stack' = <<>>
              ELSE gen' = gen /\ stack' = ChildrenToVisit(node) \o Tail(stack)
    /\ UNCHANGED <<v_directives, v_roles, used_options, p_tree, yielded>>
    /\ UNCHANGED <<inputVars, classVars, trimVars, mapVars>>

visit_FunctionDef == VisitChecked("FunctionDef")

visit_ClassDef == VisitChecked("ClassDef")

visit_Module == VisitChecked("Module")

\* a node of any other kind: generic_visit(node)
generic_visit ==
    /\ gen = "visiting"
    /\ stack # <<>>
    /\ p_tree[Head(stack)].kind \notin CheckedKinds
    /\ stack' = ChildrenToVisit(p_tree[Head(stack)]) \o Tail(stack)
    /\ UNCHANGED <<v_directives, v_roles, v_errors, v_origin, checked,
                   used_options>>
    /\ UNCHANGED <<runVars, inputVars, classVars, trimVars, mapVars>>

\* visitor.visit(self._tree) returns; the loop over visitor.errors begins
EndVisit ==
    /\ gen = "visiting"
    /\ stack = <<>>
    /\ gen' = "yielding"
    /\ UNCHANGED <<p_tree, yielded>>
    /\ UNCHANGED <<inputVars, classVars, visitorVars, trimVars, mapVars>>

\* yield line, col, msg, type(self)
Yield ==
    /\ gen = "yielding"
    /\ Len(yielded) < Len(v_errors)
    /\ LET e == v_errors[Len(yielded) + 1]
       IN  yielded' = Append(yielded, <<e.line, e.col, e.msg, "Plugin">>)
    /\ UNCHANGED <<p_tree, gen>>
    /\ UNCHANGED <<inputVars, classVars, visitorVars, trimVars, mapVars>>

\* the loop is over: the generator is exhausted
Return ==
    /\ gen = "yielding"
    /\ Len(yielded) = Len(v_errors)
    /\ gen' = "done"
    /\ UNCHANGED <<p_tree, yielded>>
    /\ UNCHANGED <<inputVars, classVars, visitorVars, trimVars, mapVars>>

NextPos ==
    \/ Construct
    \/ Run
    \/ StartVisit
    \/ visit_Module
    \/ visit_ClassDef
    \/ visit_FunctionDef
    \/ generic_visit
    \/ EndVisit
    \/ Yield
    \/ Return

Next ==
    \/ ParseOptions
    \/ NextPos

Spec == Init /\ [][Next]_vars

SpecPos == InitPos /\ [][NextPos]_vars

(***************************************************************************)
(* Claims about trim                                                       *)
(***************************************************************************)
\* number of lines of a text made by "\n".join: line breaks plus one
JoinedLineCount(text) ==
    Cardinality({i \in 1..Len(text) : text[i] = "\n"}) + 1

\* length of the leading whitespace of a line
LeadingWs(line) ==
    CHOOSE n \in 0..Len(line) :
        /\ \A j \in 1..n : IsSpace(line[j])
        /\ n = Len(line) \/ ~IsSpace(line[n + 1])

NonBlank(line) == \E j \in 1..Len(line) : ~IsSpace(line[j])

\* some line after the first is non-blank
HasNonBlankTail(L) == \E i \in 2..Len(L) : NonBlank(L[i])

\* minimum leading-whitespace length over the non-blank lines after the first
MinIndent(L) ==
    CHOOSE m \in 0..maxsize :
        /\ \E i \in 2..Len(L) : NonBlank(L[i]) /\ LeadingWs(L[i]) = m
        /\ \A i \in 2..Len(L) : NonBlank(L[i]) => LeadingWs(L[i]) >= m

\* line 1 stripped at both ends; line i >= 2 less MinIndent leading
\* characters, trailing whitespace stripped
StatedLines(L) ==
    [i \in 1..Len(L) |->
        IF i = 1 THEN strip(L[1])
        ELSE rstrip(SubSeq(L[i], MinIndent(L) + 1, Len(L[i])))]

\* C5 (as stated): for every non-empty input, trim returns a text with as
\* many lines as the input; no line is added or dropped, also when every
\* line after the first is blank.
C5_LineCountPreserved ==
    (t_pc = "returned" /\ Truthy(t_in))
        => JoinedLineCount(t_out) = Len(splitlines(t_in))

\* C6 (as stated, on the lines of the input as given): with a non-blank
\* line after the first, trim returns line 1 stripped and every later
\* input line less exactly indent leading characters, right-stripped;
\* trim of an empty or absent text is the empty text.
C6_OnRawLines ==
    t_pc = "returned" =>
        /\ ~Truthy(t_in) => t_out = <<>>
        /\ (Truthy(t_in) /\ HasNonBlankTail(splitlines(t_in)))
               => t_out = join(StatedLines(splitlines(t_in)))

\* C6 (amended): the same, on the lines of the input after its tabs are
\* expanded to spaces (tab stops every 8 columns, restarting on each line).
C6_OnExpandedLines ==
    t_pc = "returned" =>
        /\ ~Truthy(t_in) => t_out = <<>>
        /\ (Truthy(t_in) /\ HasNonBlankTail(splitlines(expandtabs(t_in))))
               => t_out = join(StatedLines(splitlines(expandtabs(t_in))))

\* C6 witness: trim has returned for a text of three lines or more whose
\* later lines are indented, and has changed it
C6_Witness ==
    /\ t_pc = "returned"
    /\ Truthy(t_in)
    /\ Len(splitlines(expandtabs(t_in))) >= 3
    /\ HasNonBlankTail(splitlines(expandtabs(t_in)))
    /\ MinIndent(splitlines(expandtabs(t_in))) >= 1
    /\ t_out # t_in

(***************************************************************************)
(* Claims about code_mapping                                               *)
(***************************************************************************)
NoQuoteIn(x) == \A i \in 1..Len(x) : x[i] # Q

\* the message reads: fixed, space, quote, variable, quote, period
HasShape(msg, fixed, variable) ==
    /\ msg = fixed \o <<" ", Q>> \o variable \o <<Q, ".">>
    /\ NoQuoteIn(fixed)
    /\ NoQuoteIn(variable)

\* the ways to read msg as <fixed text> "<variable>".
Readings(msg) ==
    {fv \in {<<SubSeq(msg, 1, i - 1), SubSeq(msg, i + 2, Len(msg) - 2)>> :
                 i \in 1..Len(msg)} :
        HasShape(msg, fv[1], fv[2])}

\* the code the claim states for a message
StatedCode(level, msg, eds, ers) ==
    LET table == code_mappings_by_level[level]
    IN  IF msg \in DOMAIN table THEN table[msg]
        ELSE IF Readings(msg) = {} THEN 99
        ELSE LET fv == CHOOSE r \in Readings(msg) : TRUE
             IN  IF fv[1] = <<"Unknown directive type">> /\ In(fv[2], eds)
                 THEN 0
                 ELSE IF fv[1] = <<"Unknown interpreted text role">>
                         /\ In(fv[2], ers)
                 THEN 0
                 ELSE IF fv[1] \in DOMAIN table THEN table[fv[1]]
                 ELSE 99

\* C4: code_mapping returns the level table's entry for a message that is a
\* key; else, for a message of the shape <fixed text> "<variable>"., 0 for
\* an unknown directive listed in extra_directives or an unknown role
\* listed in extra_roles and otherwise the table's entry for the fixed text
\* or 99; else 99.  So the code is in 0..99, it is 0 only for an extra
\* directive or role name of the right kind, and no message is dropped.
C4_CodeMapping ==
    m_pc = "returned" =>
        /\ m_code = StatedCode(m_level, m_msg, m_dirs, m_roles)
        /\ m_code \in 0..99
        /\ m_code = 0 =>
              \/ \E n \in m_dirs : m_msg = DirectiveMsg(n)
              \/ \E n \in m_roles : m_msg = RoleMsg(n)
        /\ \A n \in m_roles \ m_dirs : m_msg = DirectiveMsg(n) => m_code # 0
        /\ \A n \in m_dirs \ m_roles : m_msg = RoleMsg(n) => m_code # 0

\* C4 witness: an unknown-directive message was mapped while its name was
\* listed as an extra role only, and got the table's code
C4_Witness ==
    /\ m_pc = "returned"
    /\ m_level = 3
    /\ m_msg = DirectiveMsg("req")
    /\ m_dirs = {}
    /\ m_roles = {"req"}
    /\ m_code = 3

\* reached too: the suppressed message and the unrecognised message
C4_WitnessSuppressed ==
    /\ m_pc = "returned"
    /\ m_msg = RoleMsg("req")
    /\ m_roles = {"req"}
    /\ m_code = 0

(***************************************************************************)
(* Claims about the walker                                                 *)
(***************************************************************************)
\* the nodes of the tree in pre-order: a node, then its children's subtrees
\* in order
RECURSIVE PreOrderOf(_, _)
RECURSIVE PreOrderAll(_, _)
PreOrderOf(t, n) == <<n>> \o PreOrderAll(t, t[n].children)
PreOrderAll(t, cs) ==
    IF cs = <<>> THEN <<>>
    ELSE PreOrderOf(t, Head(cs)) \o PreOrderAll(t, Tail(cs))

RECURSIVE Filter(_, _)
Filter(q, S) ==
    IF q = <<>> THEN <<>>
    ELSE (IF Head(q) \in S THEN <<Head(q)>> ELSE <<>>) \o Filter(Tail(q), S)

\* the module, class and function nodes in pre-order
StatedVisitOrder(t) ==
    Filter(PreOrderOf(t, 1), {n \in 1..Len(t) : t[n].kind \in CheckedKinds})

\* the positions of v_errors that stem from node n, ascending
RECURSIVE PositionsFrom(_, _)
PositionsFrom(n, i) ==
    IF i > Len(v_errors) THEN <<>>
    ELSE (IF v_origin[i].node = n THEN <<i>> ELSE <<>>) \o PositionsFrom(n, i + 1)

\* the errors of node n, in the order they were appended
NodeErrors(n) ==
    LET ps == PositionsFrom(n, 1) IN [j \in 1..Len(ps) |-> v_errors[ps[j]]]

NodeMessages(n) ==
    LET ps == PositionsFrom(n, 1) IN [j \in 1..Len(ps) |-> v_errors[ps[j]].msg]

NodeOrigins(n) ==
    LET ps == PositionsFrom(n, 1) IN [j \in 1..Len(ps) |-> v_origin[ps[j]].violation]

RECURSIVE ConcatNodeErrors(_)
ConcatNodeErrors(order) ==
    IF order = <<>> THEN <<>>
    ELSE NodeErrors(Head(order)) \o ConcatNodeErrors(Tail(order))

AsTuples(errors) ==
    [i \in 1..Len(errors) |->
        <<errors[i].line, errors[i].col, errors[i].msg, "Plugin">>]

\* the three decimal digits of a number below 1000
ThreeDigits(n) ==
    LET d == CHOOSE t \in (0..9) \X (0..9) \X (0..9) :
                 100 * t[1] + 10 * t[2] + t[3] = n
    IN  <<Digit(d[1]), Digit(d[2]), Digit(d[3])>>

\* the first line of a message
StatedFirstLine(message) ==
    LET breaks == {i \in 1..Len(message) : message[i] = "\n"}
    IN  IF breaks = {} THEN message
        ELSE SubSeq(message, 1, Minimum(breaks) - 1)

\* the messages the claims state for the violations vs, from the i-th on
RECURSIVE StatedMessages(_, _, _, _)
StatedMessages(vs, i, eds, ers) ==
    IF i > Len(vs) THEN <<>>
    ELSE LET v == vs[i]
             first == StatedFirstLine(v.message)
             local == StatedCode(v.level, first, eds, ers)
         IN  (IF v.level \in {2, 3, 4} /\ local # 0
              THEN << <<"RST">> \o ThreeDigits(100 * v.level + local)
                        \o <<" ">> \o first >>
              ELSE <<>>)
             \o StatedMessages(vs, i + 1, eds, ers)

\* what the validator does on the docstring of node n
LintOf(n) == lint[trim(tree[n].doc)]

\* the nodes whose docstring has been validated without a failure
ValidatedNodes ==
    {n \in DocumentedNodes(tree) :
        (\E i \in 1..Len(checked) : checked[i] = n) /\ ~LintOf(n).raises}

\* the nodes whose docstring's validation has raised
FailedNodes ==
    {n \in DocumentedNodes(tree) :
        (\E i \in 1..Len(checked) : checked[i] = n) /\ LintOf(n).raises}

\* C1 (as stated): a violation the validator reports at line k of the
\* trimmed text (a line that holds text) is emitted at the file line that
\* holds the k-th line of the docstring literal, for every layout of the
\* docstring.
C1_LineIsFileLine ==
    \A i \in 1..Len(v_errors) :
        v_origin[i].violation > 0 =>
            LET n == v_origin[i].node
                k == LintOf(n).violations[v_origin[i].violation].line
                L == splitlines(tree[n].doc)
            IN  (k <= Len(L) /\ NonBlank(L[k]))
                    => v_errors[i].line = tree[n].doc_first + k - 1

\* C2 (as stated): when the validator raises on the docstring of a module,
\* class or function, exactly one diagnostic is emitted for it, code 903 at
\* (doc_start_line, column), naming the node and the error; no exception
\* leaves the run; the other nodes are reported as usual.
C2_FailureIsOneDiagnostic ==
    /\ gen # "raised"
    /\ \A n \in FailedNodes :
          /\ NodeOrigins(n) = <<0>>
          /\ NodeErrors(n)[1].line = doc_start_lineno(tree[n])
          /\ \E name \in {"<module>", tree[n].name} :
                NodeErrors(n)[1].msg =
                    <<"RST", "9", "0", "3", " ", "Failed to lint docstring: ",
                      name, " - ", LintOf(n).error>>
    /\ \A n \in ValidatedNodes :
          NodeMessages(n) =
              StatedMessages(LintOf(n).violations, 1, v_directives, v_roles)

\* the part of C2 that holds: the same, for the docstrings of classes and
\* functions
C2_ForDefinitions ==
    \A n \in FailedNodes :
        tree[n].kind # "Module" =>
            /\ NodeOrigins(n) = <<0>>
            /\ NodeErrors(n)[1].line = doc_start_lineno(tree[n])
            /\ NodeErrors(n)[1].col = tree[n].col_offset
            /\ NodeErrors(n)[1].msg =
                   <<"RST", "9", "0", "3", " ", "Failed to lint docstring: ",
                     tree[n].name, " - ", LintOf(n).error>>

\* C3: for a docstring whose validation does not raise, the diagnostics
\* correspond one-to-one, in the validator's order, to the violations of
\* level 2, 3 or 4 whose code_mapping result is not 0; each message is
\* "RST", the three digits of 100 * level + local code, a space and the
\* first line of the violation's message; no level-1 violation, no
\* violation mapped to 0 is emitted, and the assertion never fails.
C3_SurfacedViolations ==
    \A n \in ValidatedNodes :
        /\ NodeMessages(n) =
               StatedMessages(LintOf(n).violations, 1, v_directives, v_roles)
        /\ \A j \in 1..Len(NodeOrigins(n)) :
              LET o == NodeOrigins(n)[j]
              IN  /\ o > 0
                  /\ LintOf(n).violations[o].level \in {2, 3, 4}
                  /\ \A h \in 1..(j - 1) : NodeOrigins(n)[h] < o

\* C3 witness: the run is over; a docstring had a suppressed directive
\* violation and then an unrecognised two-line severe one, and only
\* RST499 with the first line was emitted for it
C3_Witness ==
    /\ gen = "done"
    /\ \E n \in ValidatedNodes :
          /\ LintOf(n).violations =
                 <<[level |-> 3, line |-> 1, message |-> DirectiveMsg("req")],
                   [level |-> 4, line |-> 1, message |-> NovelMsg]>>
          /\ v_directives = {"req"}
          /\ NodeMessages(n) = << <<"RST", "4", "9", "9", " ", "Novel message">> >>

\* C7 (as stated): once run has ended, every module, class and function
\* node has been checked exactly once, in pre-order, and the yielded
\* sequence is the concatenation, in that order, of each node's diagnostics
\* in the validator's order.
C7_PreOrderConcatenation ==
    gen \in {"done", "raised"} =>
        /\ checked = StatedVisitOrder(tree)
        /\ yielded = AsTuples(ConcatNodeErrors(StatedVisitOrder(tree)))
        /\ \A n \in 1..Len(tree) :
              /\ \A j \in 2..Len(NodeOrigins(n)) :
                    NodeOrigins(n)[j - 1] < NodeOrigins(n)[j]
                        \/ NodeOrigins(n)[j] = 0
              /\ ~(tree[n].kind \in CheckedKinds /\ Truthy(tree[n].doc))
                    => NodeErrors(n) = <<>>

\* the part of C7 that holds: the same, for a run that ends without an
\* exception
C7_WhenRunCompletes ==
    gen = "done" =>
        /\ checked = StatedVisitOrder(tree)
        /\ yielded = AsTuples(ConcatNodeErrors(StatedVisitOrder(tree)))
        /\ \A n \in 1..Len(tree) :
              /\ \A j \in 2..Len(NodeOrigins(n)) :
                    NodeOrigins(n)[j - 1] < NodeOrigins(n)[j]
                        \/ NodeOrigins(n)[j] = 0
              /\ ~(tree[n].kind \in CheckedKinds /\ Truthy(tree[n].doc))
                    => NodeErrors(n) = <<>>

\* C8: every diagnostic, from a violation or from a validator failure, has
\* the column of its class or function node, or -1 for the module; the
\* fourth component of every yielded tuple is the plugin's type.
C8_Column ==
    /\ \A i \in 1..Len(v_errors) :
          LET node == tree[v_origin[i].node]
          IN  v_errors[i].col =
                  (IF node.kind = "Module" THEN -1 ELSE node.col_offset)
    /\ \A i \in 1..Len(yielded) :
          /\ i <= Len(v_errors)
          /\ yielded[i][2] = v_errors[i].col
          /\ yielded[i][4] = "Plugin"

\* C8 witness: the run is over and has yielded a violation of the module
\* docstring at column -1 and a validator failure of a class at column 4
C8_Witness ==
    /\ gen = "done"
    /\ \E i, j \in 1..Len(yielded) :
          /\ tree[v_origin[i].node].kind = "Module"
          /\ v_origin[i].violation > 0
          /\ yielded[i][2] = -1
          /\ tree[v_origin[j].node].kind = "ClassDef"
          /\ v_origin[j].violation = 0
          /\ yielded[j][2] = 4

UsedDirectives ==
    IF used_options = <<>> THEN {} ELSE used_options[1].rst_directives

UsedRoles ==
    IF used_options = <<>> THEN {} ELSE used_options[1].rst_roles

\* C9: the class attributes equal the values of the latest parse_options
\* (empty if none), whatever Plugin construction and run steps happen in
\* between, and the Plugin's tree is the tree it was given; a traversal
\* that runs after a parse_options suppresses with that configuration's
\* directives as directives and roles as roles (empty without one).
C9_Configuration ==
    /\ cls_extra_directives =
           (IF last_options = <<>> THEN {} ELSE last_options[1].rst_directives)
    /\ cls_extra_roles =
           (IF last_options = <<>> THEN {} ELSE last_options[1].rst_roles)
    /\ p_tree \in {<<>>, tree}
    /\ gen \in {"visiting", "yielding", "done", "raised"} =>
          /\ v_directives = UsedDirectives
          /\ v_roles = UsedRoles
          /\ \A n \in ValidatedNodes :
                NodeMessages(n) =
                    StatedMessages(LintOf(n).violations, 1,
                                   UsedDirectives, UsedRoles)

\* C9 witness: a run is over whose traversal followed a parse_options with
\* "req" as a directive only: of an unknown directive "req" and an unknown
\* role "req" only the role was reported
C9_Witness ==
    /\ gen = "done"
    /\ used_options = <<[rst_directives |-> {"req"}, rst_roles |-> {}]>>
    /\ \E n \in ValidatedNodes :
          /\ LintOf(n).violations =
                 <<[level |-> 3, line |-> 1, message |-> DirectiveMsg("req")],
                   [level |-> 3, line |-> 1, message |-> RoleMsg("req")]>>
          /\ NodeMessages(n) = << <<"RST", "3", "0", "4", " ">> \o RoleMsg("req") >>

\* a line of one or more blanks and nothing else
PureWhitespace(line) ==
    Len(line) >= 1 /\ \A i \in 1..Len(line) : line[i] \in {" ", "\t"}

\* doc_end_line - n, n the number of lines plus one when the last line is
\* not pure whitespace; doc_end_line - 1 for one line
StatedStart(node) ==
    LET L == splitlines(node.doc)
        n == Len(L) + (IF PureWhitespace(L[Len(L)]) THEN 0 ELSE 1)
    IN  IF Len(L) = 1 THEN node.doc_lineno - 1 ELSE node.doc_lineno - n

\* the literal opens and closes on one line
SingleLineLayout(doc) == \A i \in 1..Len(doc) : doc[i] # "\n"

\* two lines or more, the last one text that starts in the first column,
\* the closing delimiter alone on the next line
FlushLeftLayout(doc) ==
    LET L == splitlines(doc)
    IN  /\ doc[Len(doc)] = "\n"
        /\ Len(L) >= 2
        /\ L[Len(L)] # <<>>
        /\ ~IsSpace(L[Len(L)][1])

C10_WitnessSingleLine ==
    /\ gen = "done"
    /\ \E i \in 1..Len(yielded) :
          LET n == v_origin[i].node
          IN  /\ v_origin[i].violation > 0
              /\ SingleLineLayout(tree[n].doc)
              /\ yielded[i][1] = tree[n].doc_first

====
